---- MODULE Spec2Model ----
(***************************************************************************)
(* Model of the request-signing auth adapters of monitoring/monitorlib/     *)
(* auth.py and of the content digest of monitoring/messagesigning/          *)
(* hasher.py.                                                               *)
(*                                                                          *)
(* Python str and bytes values are TLA+ strings, handled character by       *)
(* character (SubSeq, Len, \o).  Conventions for the characters used:       *)
(*   "~" in a str value stands for U+00A0 (NO-BREAK SPACE), which           *)
(*       str.strip() removes and whose UTF-8 encoding is the two bytes      *)
(*       C2 A0; in a bytes value "^" is the byte C2 and "~" the byte A0,    *)
(*       neither of which bytes.strip() removes.                            *)
(* The cryptographic primitives of the libraries (SHA-512, RS256, base64)   *)
(* are injective symbolic encodings: a value is recognisable only as the    *)
(* encoding of exactly the input it was computed from.                      *)
(***************************************************************************)
EXTENDS Integers, Sequences, FiniteSets, TLC

VARIABLES
    adapter,    \* the SignedRequest object handed to the caller, or NoAdapter
    ctor,       \* the SignedRequest construction attempt and how it ended
    net,        \* the network requests made so far, in order
    call,       \* per thread: the issue_token call in progress or last ended
    scopesArg,  \* per thread: the caller's scopes list (a mutable Python list)
    clock,      \* datetime.utcnow(), in whole ticks
    digestIn,   \* the payload last given to get_content_digest
    digestOut,  \* what get_content_digest returned for it
    frame       \* per thread: the locals of a SignedRequest.issue_token that
                \* runs statement by statement beside other calls

vars == <<adapter, ctor, net, call, scopesArg, clock, digestIn, digestOut, frame>>

(***************************************************************************)
(* Bounds of the model.                                                     *)
(***************************************************************************)
MaxLen == 3
MaxClock == 1
MaxNet == 3

(***************************************************************************)
(* Python values: None, str, bytes.                                         *)
(***************************************************************************)
PyNone == [type |-> "NoneType", val |-> ""]
PyStr(s) == [type |-> "str", val |-> s]
PyBytes(b) == [type |-> "bytes", val |-> b]

\* bool(x) for None, str and bytes: None and the empty value are false.
Truthy(x) == x.type # "NoneType" /\ x.val # ""

\* The i-th character of a string.
CharAt(s, i) == SubSeq(s, i, i)

\* Characters str.strip() removes, among those of the model.
StrWhitespace == {" ", "\n", "\t", "~"}
\* Bytes bytes.strip() removes, among those of the model.
BytesWhitespace == {" ", "\n", "\t"}

RECURSIVE LStrip(_, _)
LStrip(s, ws) ==
    IF Len(s) > 0 /\ CharAt(s, 1) \in ws
    THEN LStrip(SubSeq(s, 2, Len(s)), ws)
    ELSE s

RECURSIVE RStrip(_, _)
RStrip(s, ws) ==
    IF Len(s) > 0 /\ CharAt(s, Len(s)) \in ws
    THEN RStrip(SubSeq(s, 1, Len(s) - 1), ws)
    ELSE s

\* payload.strip() on a str or a bytes value.
Strip(x) ==
    [x EXCEPT !.val = RStrip(LStrip(x.val, IF x.type = "bytes"
                                             THEN BytesWhitespace
                                             ELSE StrWhitespace),
                              IF x.type = "bytes" THEN BytesWhitespace
                                                  ELSE StrWhitespace)]

\* s.encode("utf-8"): ASCII characters are one byte each, U+00A0 is C2 A0.
\* (A character-by-character encoding is computed on the two halves of the
\* string, which keeps the evaluation shallow on long strings.)
RECURSIVE Utf8(_)
Utf8(s) ==
    IF s = "" THEN ""
    ELSE IF Len(s) = 1 THEN (IF s = "~" THEN "^~" ELSE s)
    ELSE Utf8(SubSeq(s, 1, Len(s) \div 2))
         \o Utf8(SubSeq(s, Len(s) \div 2 + 1, Len(s)))

\* hashlib.sha512(b).digest()
Sha512(b) == "sha512<" \o b \o ">"

\* base64.b64encode(b).decode("utf-8"): the standard alphabet has no ".", ":"
\* or whitespace; a byte outside it is written as an escape.
RECURSIVE B64Encode(_)
B64Encode(b) ==
    IF b = "" THEN ""
    ELSE IF Len(b) = 1
    THEN (CASE b = "." -> "/d"
            [] b = ":" -> "/c"
            [] b = " " -> "/s"
            [] b = "\n" -> "/n"
            [] b = "\t" -> "/t"
            [] b = "/" -> "//"
            [] OTHER -> b)
    ELSE B64Encode(SubSeq(b, 1, Len(b) \div 2))
         \o B64Encode(SubSeq(b, Len(b) \div 2 + 1, Len(b)))

(***************************************************************************)
(* hasher.py                                                                *)
(***************************************************************************)
\* get_content_digest with the strip moved after the '""' test
get_content_digest_late_strip(payload) ==
    LET bytesOf ==
            IF Truthy(payload)
            THEN LET e == IF payload.type # "bytes"
                          THEN Utf8(payload.val) ELSE payload.val
                     n == IF e = "\"\"" THEN "" ELSE e
                 IN  RStrip(LStrip(n, BytesWhitespace), BytesWhitespace)
            ELSE ""
    IN  B64Encode(Sha512(bytesOf))

get_content_digest(payload) ==
    LET bytesOf ==
            IF Truthy(payload)
            THEN LET stripped == Strip(payload)
                     encoded == IF payload.type # "bytes"
                                THEN Utf8(stripped.val)
                                ELSE stripped.val
                 IN  IF encoded = "\"\"" THEN "" ELSE encoded
            ELSE ""
    IN  B64Encode(Sha512(bytesOf))

(***************************************************************************)
(* String operations of Python and its libraries used by auth.py.           *)
(***************************************************************************)
UpperChars == "ABCDEFGHIJKLMNOPQRSTUVWXYZ"
LowerChars == "abcdefghijklmnopqrstuvwxyz"

\* c.lower() for one character.
LowerChar(c) ==
    IF \E i \in 1..Len(UpperChars) : CharAt(UpperChars, i) = c
    THEN CharAt(LowerChars,
                CHOOSE i \in 1..Len(UpperChars) : CharAt(UpperChars, i) = c)
    ELSE c

\* s.lower()
RECURSIVE Lower(_)
Lower(s) ==
    IF s = "" THEN ""
    ELSE IF Len(s) = 1 THEN LowerChar(s)
    ELSE Lower(SubSeq(s, 1, Len(s) \div 2))
         \o Lower(SubSeq(s, Len(s) \div 2 + 1, Len(s)))

\* s[-4:]: the last four characters, or all of s when it is shorter.
Last4(s) == IF Len(s) <= 4 THEN s ELSE SubSeq(s, Len(s) - 3, Len(s))

\* sub in s
Contains(s, sub) ==
    \E i \in 1..(Len(s) - Len(sub) + 1) : SubSeq(s, i, i + Len(sub) - 1) = sub

\* sep.join(parts), parts a sequence of strings.
RECURSIVE Join(_, _)
Join(sep, parts) ==
    IF Len(parts) = 0 THEN ""
    ELSE IF Len(parts) = 1 THEN parts[1]
    ELSE parts[1] \o sep \o Join(sep, Tail(parts))

\* The position of the first occurrence of sub in s at or after i, 0 if none.
Find(s, sub, i) ==
    LET hits == {j \in i..(Len(s) - Len(sub) + 1) :
                    SubSeq(s, j, j + Len(sub) - 1) = sub}
    IN  IF hits = {} THEN 0 ELSE CHOOSE j \in hits : \A k \in hits : j <= k

\* urllib.parse.urlparse(url).path for "scheme://netloc/path?query#fragment".
UrlPath(url) ==
    LET sch == Find(url, "://", 1)
        rest == IF sch = 0 THEN url ELSE SubSeq(url, sch + 3, Len(url))
        slash == Find(rest, "/", 1)
        q == Find(rest, "?", 1)
        h == Find(rest, "#", 1)
        stops == {p \in {q, h} : p > 0}
        endAt == IF stops = {} THEN Len(rest)
                 ELSE (CHOOSE p \in stops : \A r \in stops : p <= r) - 1
    IN  IF slash = 0 \/ slash > endAt THEN "" ELSE SubSeq(rest, slash, endAt)

\* urllib.parse.quote(s): "/" is safe, the other reserved characters of the
\* model are percent-encoded.
RECURSIVE Quote(_)
Quote(s) ==
    IF s = "" THEN ""
    ELSE IF Len(s) = 1
    THEN (CASE s = " " -> "%20"
            [] s = ":" -> "%3A"
            [] s = "&" -> "%26"
            [] s = "=" -> "%3D"
            [] s = "%" -> "%25"
            [] OTHER -> s)
    ELSE Quote(SubSeq(s, 1, Len(s) \div 2))
         \o Quote(SubSeq(s, Len(s) \div 2 + 1, Len(s)))

\* urllib.parse.quote_plus(s), which requests applies to the keys and values
\* of a dict given as data=.
RECURSIVE QuotePlus(_)
QuotePlus(s) ==
    IF s = "" THEN ""
    ELSE IF Len(s) = 1
    THEN (CASE s = " " -> "+"
            [] s = ":" -> "%3A"
            [] s = "/" -> "%2F"
            [] s = "&" -> "%26"
            [] s = "=" -> "%3D"
            [] s = "%" -> "%25"
            [] s = "+" -> "%2B"
            [] OTHER -> s)
    ELSE QuotePlus(SubSeq(s, 1, Len(s) \div 2))
         \o QuotePlus(SubSeq(s, Len(s) \div 2 + 1, Len(s)))

\* A dict is a sequence of <<key, value>> pairs in insertion order.
DictGet(d, k) == d[CHOOSE i \in 1..Len(d) : d[i][1] = k][2]

\* s.split(sep) for a one-character separator.
RECURSIVE Split(_, _)
Split(s, sep) ==
    LET i == Find(s, sep, 1)
    IN  IF i = 0 THEN <<s>>
        ELSE <<SubSeq(s, 1, i - 1)>> \o Split(SubSeq(s, i + 1, Len(s)), sep)

(***************************************************************************)
(* The libraries' cryptography (jwcrypto, cryptography).  A key is named    *)
(* by the key pair it belongs to; a JWK is the private or the public half.  *)
(***************************************************************************)
KeyIds == {"K1", "K2"}
PrivateJwk(k) == [id |-> k, private |-> TRUE]
PublicJwk(k) == [id |-> k, private |-> FALSE]

\* The RS256 signature of msg under key pair k.
RS256(k, msg) == "rs256<" \o k \o "|" \o msg \o ">"

\* signer.sign(private_jwk, msg).  sound is whether the library and the key
\* object work as they should; a defective one yields bytes that are not the
\* signature of msg.
RawSign(private_jwk, msg, sound) ==
    IF sound THEN RS256(private_jwk.id, msg) ELSE "rs256<corrupt>"

\* Whether sig is the RS256 signature of msg under public_jwk's key pair.
RawVerify(public_jwk, msg, sig) == sig = RS256(public_jwk.id, msg)

\* jwcrypto's base64url_encode: the URL-safe alphabet has no "."; a byte
\* outside it is written as an escape.
RECURSIVE B64Url(_)
B64Url(b) ==
    IF b = "" THEN ""
    ELSE IF Len(b) = 1
    THEN (CASE b = "." -> "_d"
            [] b = "_" -> "__"
            [] OTHER -> b)
    ELSE B64Url(SubSeq(b, 1, Len(b) \div 2))
         \o B64Url(SubSeq(b, Len(b) \div 2 + 1, Len(b)))

\* public_jwk.thumbprint()
Thumbprint(public_jwk) == "tp-" \o public_jwk.id

\* jwcrypto.common.json_encode(token_headers): compact JSON, keys sorted.
JsonEncodeHeaders(token_headers) ==
    "{\"alg\":\"" \o DictGet(token_headers, "alg")
    \o "\",\"kid\":\"" \o DictGet(token_headers, "kid")
    \o "\",\"typ\":\"" \o DictGet(token_headers, "typ")
    \o "\",\"x5u\":\"" \o DictGet(token_headers, "x5u") \o "\"}"

(***************************************************************************)
(* Outcomes of a call: a returned value or a raised exception.              *)
(***************************************************************************)
Returned(v) == [kind |-> "returned", value |-> v]
Raised(exc, msg) == [kind |-> exc, value |-> msg]
NoOutcome == [kind |-> "none", value |-> ""]
IsRaised(o) == o.kind \notin {"returned", "none"}

(***************************************************************************)
(* auth.py: _make_jws, _make_signature                                      *)
(***************************************************************************)
\* jws.add_signature and jws.serialize(compact=True)
JwsCompact(token_headers, payload, private_jwk, sound) ==
    LET signingInput == B64Url(JsonEncodeHeaders(token_headers)) \o "."
                        \o B64Url(Utf8(payload))
    IN  signingInput \o "." \o B64Url(RawSign(private_jwk, signingInput, sound))

\* jws_check.deserialize(signed); jws_check.verify(public_jwk, "RS256")
JwsVerifies(signed, public_jwk) ==
    LET parts == Split(signed, ".")
    IN  /\ Len(parts) = 3
        /\ parts[3] = B64Url(RS256(public_jwk.id, parts[1] \o "." \o parts[2]))

\* _make_jws returning the token whether or not it verifies
_make_jws_unchecked(token_headers, payload, private_jwk, public_jwk, sound) ==
    Returned(JwsCompact(token_headers, payload, private_jwk, sound))

_make_jws(token_headers, payload, private_jwk, public_jwk, sound) ==
    LET signed == JwsCompact(token_headers, payload, private_jwk, sound)
    IN  IF JwsVerifies(signed, public_jwk)
        THEN Returned(signed)
        ELSE Raised("AccessTokenError",
                    "Could not construct a valid cryptographic signature for JWS")

\* _make_signature ignoring what signer.verify finds
_make_signature_unchecked(payload, private_jwk, public_jwk, sound) ==
    Returned(B64Encode(RawSign(private_jwk, Utf8(payload), sound)))

_make_signature(payload, private_jwk, public_jwk, sound) ==
    LET payload_bytes == Utf8(payload)
        signature == RawSign(private_jwk, payload_bytes, sound)
    IN  IF RawVerify(public_jwk, payload_bytes, signature)
        THEN Returned(B64Encode(signature))
        ELSE Raised("InvalidSignature", "")

(***************************************************************************)
(* auth.py: _load_keypair and SignedRequest.__init__                        *)
(*                                                                          *)
(* What construction finds outside the program: the answer of the server    *)
(* at cert_url and the file at key_path.                                    *)
(***************************************************************************)
JunkContent == [fmt |-> "junk", key |-> ""]
CertContents ==
    {[fmt |-> f, key |-> k] : f \in {"DER", "PEM"}, k \in KeyIds} \cup {JunkContent}
CertResponses ==
    {[reachable |-> TRUE, status_code |-> 200, content |-> c] : c \in CertContents}
    \cup {[reachable |-> TRUE, status_code |-> 404, content |-> JunkContent],
          [reachable |-> FALSE, status_code |-> 0, content |-> JunkContent]}
KeyFiles ==
    {[exists |-> TRUE, content |-> [fmt |-> "PEM", key |-> "K1"]],
     [exists |-> TRUE, content |-> JunkContent],
     [exists |-> FALSE, content |-> JunkContent]}

\* key.public_bytes(Encoding.PEM, PublicFormat.SubjectPublicKeyInfo)
PublicBytes(k) == "SPKI<" \o k \o ">"

\* A request as the transport sees it.
HttpRequest(method, url, body, headers) ==
    [method |-> method, url |-> url, body |-> body, headers |-> headers]
NoHeaders == <<>>

\* the comparison of line 206 replaced by one that accepts any pair
KeysDifferNever(cert_public_key, public_key) == FALSE

\* cert_public_key != public_key
KeysDiffer(cert_public_key, public_key) == cert_public_key # public_key

\* The result of _load_keypair: the network requests it made, in order, and
\* the pair of JWKs it returned or the exception it raised.
LoadResult(requests, outcome) == [requests |-> requests, outcome |-> outcome]

_load_keypair(key_path, cert_url, response, file) ==
    LET get == <<HttpRequest("GET", cert_url, "", NoHeaders)>>
        certExt == Lower(Last4(cert_url))
        keyExt == Lower(Last4(key_path))
        cert == response.content
    IN  IF ~response.reachable
            THEN LoadResult(get, Raised("ConnectionError", cert_url))
        ELSE IF response.status_code # 200
            THEN LoadResult(get, Raised("AssertionError", ""))
        ELSE IF certExt \notin {".der", ".crt"}
            THEN LoadResult(get, Raised("AccessTokenError",
                                        "cert_url must end with .der or .crt"))
        ELSE IF (certExt = ".der" /\ cert.fmt # "DER")
                \/ (certExt = ".crt" /\ cert.fmt # "PEM")
            THEN LoadResult(get, Raised("ValueError", "Unable to load certificate"))
        ELSE IF ~file.exists
            THEN LoadResult(get, Raised("FileNotFoundError", key_path))
        ELSE IF keyExt \notin {".key", ".pem"}
            THEN LoadResult(get, Raised("AccessTokenError",
                                        "key_path must end with .key or .pem"))
        ELSE IF file.content.fmt # "PEM"
            THEN LoadResult(get, Raised("ValueError", "Could not deserialize key data"))
        ELSE IF KeysDiffer(PublicBytes(cert.key), PublicBytes(file.content.key))
            THEN LoadResult(get, Raised("AccessTokenError",
                    "Public key in certificate does not match private key provided"))
        ELSE LoadResult(get, Returned(<<PrivateJwk(file.content.key),
                                        PublicJwk(file.content.key)>>))

NoAdapter == [constructed |-> FALSE]

\* the test of line 287 replaced by one that accepts any style
StyleRejectedNever(signature_style) == FALSE

\* signature_style not in ("UPP2", "UFT")
StyleRejected(signature_style) == signature_style \notin {"UPP2", "UFT"}

\* SignedRequest.__init__: the requests made, the exception raised if any, and
\* the object the caller gets (none when __init__ raised).
SignedRequestInit(a, response, file) ==
    IF StyleRejected(a.signature_style)
    THEN [requests |-> <<>>,
          outcome |-> Raised("ValueError",
              "signature_style must be either UPP2 or UFT; found "
              \o a.signature_style),
          self |-> NoAdapter]
    ELSE LET loaded == _load_keypair(a.key_path, a.cert_url, response, file)
         IN  IF IsRaised(loaded.outcome)
             THEN [requests |-> loaded.requests, outcome |-> loaded.outcome,
                   self |-> NoAdapter]
             ELSE [requests |-> loaded.requests,
                   outcome |-> Returned(""),
                   self |-> [constructed |-> TRUE,
                             token_endpoint |-> a.token_endpoint,
                             client_id |-> a.client_id,
                             cert_url |-> a.cert_url,
                             signature_style |-> a.signature_style,
                             private_jwk |-> loaded.outcome.value[1],
                             public_jwk |-> loaded.outcome.value[2],
                             kid |-> IF Truthy(a.key_id) THEN a.key_id.val
                                     ELSE Thumbprint(loaded.outcome.value[2])]]

(***************************************************************************)
(* auth.py: SignedRequest.issue_token, up to the token request              *)
(***************************************************************************)
\* datetime.datetime.utcnow().isoformat() at tick t
IsoFormat(t) == "2023-01-01T00:00:0" \o ToString(t)

\* int(datetime.datetime.utcnow().timestamp()) at tick t
EpochSeconds(t) == 1672531200 + t

\* [k + "=" + v for k, v in query.items()]
KeyEqualsValue(query) == [i \in 1..Len(query) |-> query[i][1] \o "=" \o query[i][2]]

\* the query with its scope field moved to the end
TokenQueryScopeLast(self, intended_audience, scopes, t) ==
    << <<"grant_type", "client_credentials">>,
       <<"client_id", self.client_id>>,
       <<"resource", intended_audience>>,
       <<"current_timestamp", IsoFormat(t) \o "Z">>,
       <<"scope", Join(" ", scopes)>> >>

\* The request fields, in the order the dict literal lists them.
TokenQuery(self, intended_audience, scopes, t) ==
    << <<"grant_type", "client_credentials">>,
       <<"client_id", self.client_id>>,
       <<"scope", Join(" ", scopes)>>,
       <<"resource", intended_audience>>,
       <<"current_timestamp", IsoFormat(t) \o "Z">> >>

TokenHeaders(self) ==
    << <<"typ", "JOSE">>, <<"alg", "RS256">>,
       <<"x5u", self.cert_url>>, <<"kid", self.kid>> >>

\* re.sub with the whole match replaced by a single "."
DetachPayloadOneDot(signature) ==
    LET parts == Split(signature, ".")
    IN  IF Len(parts) < 3 THEN signature
        ELSE parts[1] \o "." \o Join(".", SubSeq(parts, 3, Len(parts)))

\* re.sub(r"\.[^.]*\.", "..", signature): each leftmost match, a "." up to the
\* next ".", is replaced by "..", and the scan goes on after the match.
RECURSIVE DetachPayload(_)
DetachPayload(signature) ==
    LET open == Find(signature, ".", 1)
        close == IF open = 0 THEN 0 ELSE Find(signature, ".", open + 1)
    IN  IF close = 0 THEN signature
        ELSE SubSeq(signature, 1, open - 1) \o ".."
             \o DetachPayload(SubSeq(signature, close + 1, Len(signature)))

\* base64.b64encode(hashlib.sha512(payload.encode("utf-8")).digest()).decode("utf-8")
InlineContentDigest(payload) == B64Encode(Sha512(Utf8(payload)))

Components ==
    <<"@method", "@path", "@query", "authorization", "content-type",
      "content-digest", "x-utm-jws-header">>

SignatureContent(self, payload, t) ==
    << <<"@method", "POST">>,
       <<"@path", UrlPath(self.token_endpoint)>>,
       <<"@query", "?">>,
       <<"authorization", "">>,
       <<"content-type", "application/x-www-form-urlencoded">>,
       <<"content-digest", "sha-512=:" \o InlineContentDigest(payload) \o ":">>,
       <<"x-utm-jws-header",
         Join(", ", [i \in 1..Len(TokenHeaders(self)) |->
                        TokenHeaders(self)[i][1] \o "=\""
                        \o TokenHeaders(self)[i][2] \o "\""])>>,
       <<"@signature-params",
         "(" \o Join(" ", [i \in 1..Len(Components) |->
                              "\"" \o Components[i] \o "\""])
         \o ");created=" \o ToString(EpochSeconds(t))>> >>

\* "\n".join('"{}": {}'.format(c, signature_content[c]) for c in components)
\* after components.append("@signature-params")
SignatureBase(signature_content) ==
    LET components == Append(Components, "@signature-params")
    IN  Join("\n", [i \in 1..Len(components) |->
                       "\"" \o components[i] \o "\": "
                       \o DictGet(signature_content, components[i])])

\* the loop of line 371 without its test, copying every component
ComponentHeadersAll(signature_content) ==
    [k \in {signature_content[i][1] : i \in 1..Len(signature_content)} |->
        DictGet(signature_content, k)]

\* for k, v in signature_content.items(): if k[0] != "@": request_headers[k] = v
ComponentHeaders(signature_content) ==
    [k \in {signature_content[i][1] :
                i \in {j \in 1..Len(signature_content) :
                          CharAt(signature_content[j][1], 1) # "@"}} |->
        DictGet(signature_content, k)]

\* requests' encoding of a dict given as data=
FormEncode(query) ==
    Join("&", [i \in 1..Len(query) |->
                  QuotePlus(query[i][1]) \o "=" \o QuotePlus(query[i][2])])

\* the token request sent with data=query
PostBodyFromQuery(query, payload) == FormEncode(query)

\* data=payload
PostBody(query, payload) == payload

NoRequest == HttpRequest("", "", "", NoHeaders)

\* What issue_token has done when it reaches requests.post or raises before it.
\*   signed: the string that was signed (the JWS signing input with its
\*           signature, or the signature base);
\*   signatureValid: whether the signature produced verifies against the
\*           adapter's public key;
\*   request: the token request to send, NoRequest when the call raised.
Built(payload, signed, signature, signatureValid, outcome, request) ==
    [payload |-> payload, signed |-> signed, signature |-> signature,
     signatureValid |-> signatureValid, outcome |-> outcome, request |-> request]

SignedRequestBuild(self, intended_audience, scopes, t1, t2, sound) ==
    LET query == TokenQuery(self, intended_audience, scopes, t1)
        payload == Join("&", KeyEqualsValue(query))
        token_headers == TokenHeaders(self)
    IN  IF self.signature_style = "UPP2"
        THEN LET made == _make_jws(token_headers, payload, self.private_jwk,
                                   self.public_jwk, sound)
                 signature == made.value
                 valid == JwsVerifies(JwsCompact(token_headers, payload,
                                                 self.private_jwk, sound),
                                      self.public_jwk)
             IN  IF IsRaised(made)
                 THEN Built(payload, "", "", valid, made, NoRequest)
                 ELSE Built(payload, signature, signature, valid, NoOutcome,
                        HttpRequest("POST", self.token_endpoint,
                            PostBody(query, payload),
                            ("Content-Type" :> "application/x-www-form-urlencoded")
                            @@ ("x-utm-message-signature" :>
                                    DetachPayload(signature))))
        ELSE IF self.signature_style = "UFT"
        THEN LET signature_content == SignatureContent(self, payload, t2)
                 signature_base == SignatureBase(signature_content)
                 made == _make_signature(signature_base, self.private_jwk,
                                         self.public_jwk, sound)
                 signature == made.value
                 valid == RawVerify(self.public_jwk, Utf8(signature_base),
                                    RawSign(self.private_jwk,
                                            Utf8(signature_base), sound))
             IN  IF IsRaised(made)
                 THEN Built(payload, signature_base, "", valid, made, NoRequest)
                 ELSE Built(payload, signature_base, signature, valid, NoOutcome,
                        HttpRequest("POST", self.token_endpoint,
                            PostBody(query, payload),
                            ("x-utm-message-signature-input" :>
                                    "utm-message-signature="
                                    \o DictGet(signature_content,
                                               "@signature-params"))
                            @@ ("x-utm-message-signature" :>
                                    "utm-message-signature=:" \o signature \o ":")
                            @@ ComponentHeaders(signature_content)))
        ELSE Built(payload, "", "", TRUE,
                   Raised("ValueError", "Invalid signature style"), NoRequest)

(***************************************************************************)
(* The token endpoint's answers and how issue_token reads them              *)
(***************************************************************************)
\* response.json() of a body: a JSON object with or without an access_token
\* member, or no JSON at all.
JsonObject(has, token) == [valid |-> TRUE, has_token |-> has, access_token |-> token]
NotJson == [valid |-> FALSE, has_token |-> FALSE, access_token |-> PyNone]

\* Bodies a token endpoint may send: content is response.content (bytes).
Bodies ==
    {[content |-> "{\"access_token\":\"abc123\"}",
      json |-> JsonObject(TRUE, PyStr("abc123"))],
     [content |-> "{\"access_token\":null}", json |-> JsonObject(TRUE, PyNone)],
     [content |-> "{\"error\":\"invalid_client\"}",
      json |-> JsonObject(FALSE, PyNone)],
     [content |-> "<html>Bad Gateway</html>", json |-> NotJson],
     [content |-> "caf^", json |-> NotJson]}

StatusCodes == {200, 401}

Responses ==
    {[reachable |-> TRUE, status_code |-> s, body |-> b] :
        s \in StatusCodes, b \in Bodies}
    \cup {[reachable |-> FALSE, status_code |-> 0,
           body |-> [content |-> "", json |-> NotJson]]}

NoResponse ==
    [reachable |-> FALSE, status_code |-> -1,
     body |-> [content |-> "", json |-> NotJson]]

\* Whether b.decode("utf-8") succeeds: the byte C2 must be followed by a
\* continuation byte, and a continuation byte must follow a C2.
RECURSIVE Utf8Valid(_)
Utf8Valid(b) ==
    IF b = "" THEN TRUE
    ELSE IF CharAt(b, 1) = "^"
    THEN Len(b) >= 2 /\ CharAt(b, 2) = "~" /\ Utf8Valid(SubSeq(b, 3, Len(b)))
    ELSE CharAt(b, 1) # "~" /\ Utf8Valid(SubSeq(b, 2, Len(b)))

\* b.decode("utf-8") of valid UTF-8.
RECURSIVE Utf8Decode(_)
Utf8Decode(b) ==
    IF b = "" THEN ""
    ELSE IF CharAt(b, 1) = "^" THEN "~" \o Utf8Decode(SubSeq(b, 3, Len(b)))
    ELSE CharAt(b, 1) \o Utf8Decode(SubSeq(b, 2, Len(b)))

\* return response.json()["access_token"]
AccessTokenOf(response) ==
    IF ~response.body.json.valid THEN Raised("JSONDecodeError", "")
    ELSE IF ~response.body.json.has_token THEN Raised("KeyError", "access_token")
    ELSE Returned(response.body.json.access_token)

\* The lines after requests.post in DummyOAuth, ServiceAccount,
\* UsernamePassword and SignedRequest; name is the adapter's name in the
\* message.
ReadTokenResponse(name, response, url) ==
    IF ~response.reachable THEN Raised("ConnectionError", url)
    ELSE IF response.status_code # 200
    THEN IF Utf8Valid(response.body.content)
         THEN Raised("AccessTokenError",
                  "Request to get " \o name \o " access token returned "
                  \o ToString(response.status_code) \o " \""
                  \o Utf8Decode(response.body.content) \o "\" at " \o url)
         ELSE Raised("UnicodeDecodeError", "")
    ELSE AccessTokenOf(response)

\* The lines after requests.post in ClientIdClientSecret (and FlightPassport).
ReadTokenResponseClientId(response, url) ==
    IF ~response.reachable THEN Raised("ConnectionError", url)
    ELSE IF response.status_code # 200
    THEN IF Utf8Valid(response.body.content)
         THEN Raised("AccessTokenError",
                  "Unable to retrieve access token:\n"
                  \o Utf8Decode(response.body.content))
         ELSE Raised("UnicodeDecodeError", "")
    ELSE AccessTokenOf(response)

(***************************************************************************)
(* auth.py: the adapters that do not sign their requests                    *)
(***************************************************************************)
EXPIRATION == 3600

TokenEndpoint == "https://as.test/token"

\* The adapters as their constructors leave them.
NoAuthAdapter == [sub |-> "uss_noauth"]
DummyOAuthAdapter == [token_endpoint |-> TokenEndpoint, sub |-> "uss1"]
ServiceAccountAdapter == [token_endpoint |-> TokenEndpoint]
UsernamePasswordAdapter ==
    [token_endpoint |-> TokenEndpoint, username |-> "user1",
     password |-> "pw1", client_id |-> "uss1"]

\* ClientIdClientSecret.__init__
ClientIdClientSecretInit(token_endpoint, client_id, client_secret, as_data) ==
    [token_endpoint |-> token_endpoint, client_id |-> client_id,
     client_secret |-> client_secret,
     send_request_as_data |-> as_data]

\* FlightPassport.__init__: send_request_as_data is given as a string.
FlightPassportInit(token_endpoint, client_id, client_secret, as_data) ==
    ClientIdClientSecretInit(token_endpoint, client_id, client_secret,
                             Lower(as_data) = "true")

\* json.dumps of a dict of strings, as requests encodes json=
JsonDumps(d) ==
    "{" \o Join(", ", [i \in 1..Len(d) |->
                          "\"" \o d[i][1] \o "\": \"" \o d[i][2] \o "\""])
    \o "}"

\* NoAuth.issue_token: the serialized JWT.
NoAuthToken(self, intended_audience, scopes, t, jti) ==
    LET timestamp == EpochSeconds(t)
        header == "{\"alg\":\"RS256\",\"typ\":\"JWT\"}"
        claims == "{\"aud\":\"" \o intended_audience
                  \o "\",\"client_id\":\"" \o self.sub
                  \o "\",\"exp\":" \o ToString(timestamp + EXPIRATION)
                  \o ",\"iss\":\"NoAuth\",\"jti\":\"" \o jti
                  \o "\",\"nbf\":" \o ToString(timestamp - 1)
                  \o ",\"scope\":\"" \o Join(" ", scopes)
                  \o "\",\"sub\":\"" \o self.sub \o "\"}"
        signingInput == B64Url(header) \o "." \o B64Url(claims)
    IN  signingInput \o "." \o B64Url(RS256("auth2", signingInput))

\* DummyOAuth.issue_token: the request posted.
DummyOAuthRequest(self, intended_audience, scopes) ==
    HttpRequest("POST",
        self.token_endpoint \o "?grant_type=client_credentials&scope="
        \o Quote(Join(" ", scopes)) \o "&intended_audience="
        \o Quote(intended_audience) \o "&issuer=dummy&sub=" \o self.sub,
        "", NoHeaders)

\* ServiceAccount.issue_token: the request posted.
ServiceAccountRequest(self, intended_audience, scopes) ==
    HttpRequest("POST",
        self.token_endpoint \o "?grant_type=client_credentials&scope="
        \o Quote(Join(" ", scopes)) \o "&intended_audience="
        \o Quote(intended_audience),
        "", NoHeaders)

\* UsernamePassword.issue_token: scopes after scopes.append(...)
UsernamePasswordScopes(intended_audience, scopes) ==
    Append(scopes, "aud:" \o intended_audience)

\* UsernamePassword.issue_token: the request posted.
UsernamePasswordRequest(self, intended_audience, scopes) ==
    HttpRequest("POST", self.token_endpoint,
        FormEncode(<< <<"grant_type", "password">>,
                      <<"username", self.username>>,
                      <<"password", self.password>>,
                      <<"client_id", self.client_id>>,
                      <<"scope", Join(" ", UsernamePasswordScopes(
                                              intended_audience, scopes))>> >>),
        "Content-Type" :> "application/x-www-form-urlencoded")

\* ClientIdClientSecret.issue_token: the request posted.
ClientIdClientSecretRequest(self, intended_audience, scopes) ==
    LET payload == << <<"grant_type", "client_credentials">>,
                      <<"client_id", self.client_id>>,
                      <<"client_secret", self.client_secret>>,
                      <<"audience", intended_audience>>,
                      <<"scope", Join(" ", scopes)>> >>
    IN  IF self.send_request_as_data
        THEN HttpRequest("POST", self.token_endpoint, FormEncode(payload),
                 "Content-Type" :> "application/x-www-form-urlencoded")
        ELSE HttpRequest("POST", self.token_endpoint, JsonDumps(payload),
                 "Content-Type" :> "application/json")

(***************************************************************************)
(* The state machine                                                        *)
(***************************************************************************)
\* Callers of issue_token.
Threads == {1, 2}
\* The caller of the sequential specifications.
MainThread == {1}

\* Arguments the model constructs a SignedRequest with.
ClientIds == {"uss1"}
KeyPaths == {"/k/a.KEY", "/k/a.p12"}
CertUrls == {"http://c.test/a.der", "http://c.test/a.CRT", "http://c.test/a.cer"}
KeyIdArgs == {PyNone, PyStr(""), PyStr("kid7")}
SignatureStyles == {"UPP2", "UFT", "JWS"}
CtorArgs ==
    [token_endpoint : {TokenEndpoint}, client_id : ClientIds,
     key_path : KeyPaths, cert_url : CertUrls, key_id : KeyIdArgs,
     signature_style : SignatureStyles]

\* Arguments the model calls issue_token with.
Audiences == {"example.org", "a b"}
ScopeLists == {<<>>, <<"read", "write">>, <<"x ">>}
Jtis == {"uuid-1", "uuid-2"}

\* One entry of net for a request made by caller by (0: the constructor).
NetEntry(request, by) == [method |-> request.method, by |-> by]

\* The construction attempt: the arguments, what the certificate server
\* answered, what the key file held, and how __init__ ended.
CtorRec(state, a, response, file, outcome) ==
    [state |-> state,
     args |-> [signature_style |-> a.signature_style, key_path |-> a.key_path,
               cert_url |-> a.cert_url],
     response |-> response, file |-> file, outcome |-> outcome]

NoCtor ==
    CtorRec("none", [signature_style |-> "", key_path |-> "", cert_url |-> ""],
            [reachable |-> FALSE, status_code |-> 0, content |-> JunkContent],
            [exists |-> FALSE, content |-> JunkContent], NoOutcome)

CallRec(pc, kind, intended_audience, built, response, outcome) ==
    [pc |-> pc, kind |-> kind, intended_audience |-> intended_audience,
     payload |-> built.payload, signed |-> built.signed,
     signature |-> built.signature, signatureValid |-> built.signatureValid,
     request |-> built.request, response |-> response, outcome |-> outcome]

\* A call that signs nothing: only its request.
Unsigned(request) == Built("", "", "", TRUE, NoOutcome, request)

IdleCall == CallRec("idle", "", "", Unsigned(NoRequest), NoResponse, NoOutcome)

\* The payloads the digest specification draws from.
DigestChars == {"a", " ", "\n", "\"", "~"}
RECURSIVE Concat(_)
Concat(chars) == IF Len(chars) = 0 THEN "" ELSE Head(chars) \o Concat(Tail(chars))
DigestStrings ==
    {Concat(cs) : cs \in UNION {[1..n -> DigestChars] : n \in 0..MaxLen}}
DigestPayloads ==
    {PyNone} \cup {PyStr(s) : s \in DigestStrings}
    \cup {PyBytes(s) : s \in DigestStrings}

NoDigest == [type |-> "none", val |-> ""]

\* The locals of one SignedRequest.issue_token call:
\*   scopes: which caller's list the call was given (lists are passed by
\*           reference, two calls may hold the same list);
\*   given, self: the contents of that list and the adapter when the call
\*           was entered;
\*   seen: the fields of self the call has read so far;
\*   joined, t1, t2: the list contents and the clock as the call read them.
Frame(pc, intended_audience, scopes, given, self, seen, joined, t1, t2, sound) ==
    [pc |-> pc, intended_audience |-> intended_audience, scopes |-> scopes,
     given |-> given, self |-> self, seen |-> seen, joined |-> joined,
     t1 |-> t1, t2 |-> t2, sound |-> sound]

NoFrame == Frame("idle", "", 1, <<>>, NoAdapter, NoAdapter, <<>>, 0, 0, TRUE)

Init ==
    /\ adapter = NoAdapter
    /\ ctor = NoCtor
    /\ net = <<>>
    /\ call = [t \in Threads |-> IdleCall]
    /\ scopesArg = [t \in Threads |-> <<>>]
    /\ clock = 0
    /\ digestIn = NoDigest
    /\ digestOut = ""
    /\ frame = [t \in Threads |-> NoFrame]

\* SignedRequest(token_endpoint, client_id, key_path, cert_url, key_id,
\* signature_style), with what the certificate server answers and what the
\* key file holds.
Construct ==
    /\ ctor.state = "none"
    /\ \E a \in CtorArgs, response \in CertResponses, file \in KeyFiles :
          LET r == SignedRequestInit(a, response, file)
          IN  /\ adapter' = r.self
              /\ ctor' = CtorRec("done", a, response, file, r.outcome)
              /\ net' = net \o [i \in 1..Len(r.requests) |->
                                   NetEntry(r.requests[i], 0)]
    /\ UNCHANGED <<call, scopesArg, clock, digestIn, digestOut, frame>>

\* A caller may start a call when its last one has ended.
CanCall(t) == call[t].pc # "waiting" /\ Len(net) < MaxNet

\* The part of an issue_token that ends in requests.post(...): the request
\* goes out and the caller waits for the answer.
Post(t, kind, intended_audience, built) ==
    /\ call' = [call EXCEPT ![t] = CallRec("waiting", kind, intended_audience,
                                           built, NoResponse, NoOutcome)]
    /\ net' = Append(net, NetEntry(built.request, t))

\* The adapters construction can return.
ConstructedAdapters ==
    {SignedRequestInit(a, response, file).self :
        a \in CtorArgs, response \in CertResponses, file \in KeyFiles}
    \ {NoAdapter}

\* The two readings of the clock in one call: the second is the first or
\* one tick later.
ClockReadings ==
    {r \in (0..MaxClock) \X (0..MaxClock) : r[2] \in {r[1], r[1] + 1}}

\* Two readings of the clock, the second not before the first.
ClockPairs ==
    {r \in (0..MaxClock) \X (0..MaxClock) : r[1] <= r[2]}

\* SignedRequestBuild on every input of the model, tabulated once (TLC
\* tabulates a function when it is combined with @@).
SignedRequestBuilds ==
    LET build == [x \in ConstructedAdapters \X Audiences \X ScopeLists
                        \X ClockPairs \X BOOLEAN |->
                    SignedRequestBuild(x[1], x[2], x[3], x[4][1], x[4][2], x[5])]
    IN  build @@ build

\* Time passes.
Tick ==
    /\ clock < MaxClock
    /\ clock' = clock + 1
    /\ UNCHANGED <<adapter, ctor, net, call, scopesArg, digestIn, digestOut, frame>>

\* SignedRequest.issue_token up to requests.post.
SignedRequestIssueToken(t) ==
    /\ adapter.constructed
    /\ CanCall(t)
    /\ \E intended_audience \in Audiences, scopes \in ScopeLists,
          r \in ClockReadings, sound \in BOOLEAN :
          /\ r[1] = clock
          /\ LET built == SignedRequestBuilds[<<adapter, intended_audience,
                                                scopes, r, sound>>]
             IN  /\ IF IsRaised(built.outcome)
                    THEN /\ call' = [call EXCEPT ![t] =
                                CallRec("raised", "SignedRequest",
                                        intended_audience, built, NoResponse,
                                        built.outcome)]
                         /\ net' = net
                    ELSE Post(t, "SignedRequest", intended_audience, built)
                 /\ scopesArg' = [scopesArg EXCEPT ![t] = scopes]
                 /\ clock' = r[2]
    /\ UNCHANGED <<adapter, ctor, digestIn, digestOut, frame>>

\* The rest of an issue_token: requests.post returns or raises, and the
\* answer is read.
TokenEndpointRespondsWith(t, responses) ==
    /\ call[t].pc = "waiting"
    /\ \E response \in responses :
          LET outcome ==
                  IF call[t].kind \in {"ClientIdClientSecret", "FlightPassport"}
                  THEN ReadTokenResponseClientId(response, call[t].request.url)
                  ELSE ReadTokenResponse(call[t].kind, response,
                                         call[t].request.url)
          IN  call' = [call EXCEPT ![t].pc = IF IsRaised(outcome)
                                             THEN "raised" ELSE "returned",
                                   ![t].response = response,
                                   ![t].outcome = outcome]
    /\ UNCHANGED <<adapter, ctor, net, scopesArg, clock, digestIn, digestOut, frame>>

TokenEndpointResponds(t) == TokenEndpointRespondsWith(t, Responses)

Next ==
    \/ Construct
    \/ Tick
    \/ \E t \in MainThread : SignedRequestIssueToken(t)
    \/ \E t \in MainThread : TokenEndpointResponds(t)

Spec == Init /\ [][Next]_vars

(***************************************************************************)
(* Every adapter variant in use: the specification starts from a            *)
(* SignedRequest that construction returned, beside the other adapters.     *)
(***************************************************************************)
InitAdapters ==
    /\ adapter \in {a \in ConstructedAdapters :
                        /\ a.kid = Thumbprint(a.public_jwk)
                        /\ a.cert_url = "http://c.test/a.der"}
    /\ ctor = CtorRec("done",
                      [signature_style |-> adapter.signature_style,
                       key_path |-> "/k/a.KEY", cert_url |-> adapter.cert_url],
                      [reachable |-> TRUE, status_code |-> 200,
                       content |-> [fmt |-> "DER", key |-> adapter.public_jwk.id]],
                      [exists |-> TRUE,
                       content |-> [fmt |-> "PEM", key |-> adapter.private_jwk.id]],
                      Returned(""))
    /\ net = <<NetEntry(HttpRequest("GET", adapter.cert_url, "", NoHeaders), 0)>>
    /\ call = [t \in Threads |-> IdleCall]
    /\ scopesArg = [t \in Threads |-> <<>>]
    /\ clock = 0
    /\ digestIn = NoDigest
    /\ digestOut = ""
    /\ frame = [t \in Threads |-> NoFrame]

\* NoAuth.issue_token: no request is made, the token is returned.
NoAuthIssueToken(t) ==
    /\ CanCall(t)
    /\ \E intended_audience \in Audiences, scopes \in ScopeLists, jti \in Jtis :
          /\ call' = [call EXCEPT ![t] =
                CallRec("returned", "NoAuth", intended_audience,
                        Unsigned(NoRequest), NoResponse,
                        Returned(PyStr(NoAuthToken(NoAuthAdapter,
                                    intended_audience, scopes, clock, jti))))]
          /\ scopesArg' = [scopesArg EXCEPT ![t] = scopes]
    /\ UNCHANGED <<adapter, ctor, net, clock, digestIn, digestOut, frame>>

\* DummyOAuth.issue_token up to the post.
DummyOAuthIssueToken(t) ==
    /\ CanCall(t)
    /\ \E intended_audience \in Audiences, scopes \in ScopeLists :
          /\ Post(t, "DummyOAuth", intended_audience,
                  Unsigned(DummyOAuthRequest(DummyOAuthAdapter,
                                             intended_audience, scopes)))
          /\ scopesArg' = [scopesArg EXCEPT ![t] = scopes]
    /\ UNCHANGED <<adapter, ctor, clock, digestIn, digestOut, frame>>

\* ServiceAccount.issue_token up to the post.
ServiceAccountIssueToken(t) ==
    /\ CanCall(t)
    /\ \E intended_audience \in Audiences, scopes \in ScopeLists :
          /\ Post(t, "ServiceAccount", intended_audience,
                  Unsigned(ServiceAccountRequest(ServiceAccountAdapter,
                                                 intended_audience, scopes)))
          /\ scopesArg' = [scopesArg EXCEPT ![t] = scopes]
    /\ UNCHANGED <<adapter, ctor, clock, digestIn, digestOut, frame>>

\* UsernamePassword.issue_token up to the post: the caller's list grows.
UsernamePasswordIssueToken(t) ==
    /\ CanCall(t)
    /\ \E intended_audience \in Audiences, scopes \in ScopeLists :
          /\ Post(t, "UsernamePassword", intended_audience,
                  Unsigned(UsernamePasswordRequest(UsernamePasswordAdapter,
                                                   intended_audience, scopes)))
          /\ scopesArg' = [scopesArg EXCEPT ![t] =
                              UsernamePasswordScopes(intended_audience, scopes)]
    /\ UNCHANGED <<adapter, ctor, clock, digestIn, digestOut, frame>>

\* ClientIdClientSecret.issue_token up to the post.
ClientIdClientSecretIssueToken(t) ==
    /\ CanCall(t)
    /\ \E intended_audience \in Audiences, scopes \in ScopeLists,
          send_request_as_data \in BOOLEAN :
          /\ Post(t, "ClientIdClientSecret", intended_audience,
                  Unsigned(ClientIdClientSecretRequest(
                      ClientIdClientSecretInit(TokenEndpoint, "uss1", "secret1",
                                               send_request_as_data),
                      intended_audience, scopes)))
          /\ scopesArg' = [scopesArg EXCEPT ![t] = scopes]
    /\ UNCHANGED <<adapter, ctor, clock, digestIn, digestOut, frame>>

\* FlightPassport inherits issue_token from ClientIdClientSecret.
FlightPassportIssueToken(t) ==
    /\ CanCall(t)
    /\ \E intended_audience \in Audiences, scopes \in ScopeLists,
          send_request_as_data \in {"true", "True", "false"} :
          /\ Post(t, "FlightPassport", intended_audience,
                  Unsigned(ClientIdClientSecretRequest(
                      FlightPassportInit(TokenEndpoint, "uss1", "secret1",
                                         send_request_as_data),
                      intended_audience, scopes)))
          /\ scopesArg' = [scopesArg EXCEPT ![t] = scopes]
    /\ UNCHANGED <<adapter, ctor, clock, digestIn, digestOut, frame>>

NextAdapters ==
    \/ Tick
    \/ \E t \in MainThread : NoAuthIssueToken(t)
    \/ \E t \in MainThread : DummyOAuthIssueToken(t)
    \/ \E t \in MainThread : ServiceAccountIssueToken(t)
    \/ \E t \in MainThread : UsernamePasswordIssueToken(t)
    \/ \E t \in MainThread : SignedRequestIssueToken(t)
    \/ \E t \in MainThread : ClientIdClientSecretIssueToken(t)
    \/ \E t \in MainThread : FlightPassportIssueToken(t)
    \/ \E t \in MainThread : TokenEndpointResponds(t)

SpecAdapters == InitAdapters /\ [][NextAdapters]_vars

(***************************************************************************)
(* The content digest on its own: payloads are drawn and digested.          *)
(***************************************************************************)
GetContentDigest ==
    /\ digestIn = NoDigest
    /\ \E payload \in DigestPayloads :
          /\ digestIn' = payload
          /\ digestOut' = get_content_digest(payload)
    /\ UNCHANGED <<adapter, ctor, net, call, scopesArg, clock, frame>>

NextDigest == GetContentDigest

SpecDigest == Init /\ [][NextDigest]_vars

(***************************************************************************)
(* Concurrent callers of one SignedRequest: issue_token runs statement by   *)
(* statement, and the statements of two calls interleave. Each step reads   *)
(* the adapter, the caller's list and the clock as they are at that step.   *)
(***************************************************************************)
\* The lists the two callers hold; a call is given one of them.
CallerLists == [t \in Threads |-> IF t = 1 THEN <<"read", "write">> ELSE <<"x ">>]

\* the caller's list if issue_token appended to it as UsernamePassword does
SignedRequestScopesAppended(intended_audience, scopes) ==
    UsernamePasswordScopes(intended_audience, scopes)

\* The caller's list after the statements of SignedRequest.issue_token that
\* use it: " ".join(scopes) reads the list, nothing writes it.
SignedRequestScopes(intended_audience, scopes) == scopes

\* What the token endpoint answers concurrent callers: a token.
ConcurrentResponses ==
    {r \in Responses :
        /\ r.reachable
        /\ r.status_code = 200
        /\ r.body.json.valid
        /\ r.body.json.access_token.type = "str"}

\* SignedRequestBuild, read from its table.
BuildOf(self, intended_audience, scopes, t1, t2, sound) ==
    SignedRequestBuilds[<<self, intended_audience, scopes, <<t1, t2>>, sound>>]

InitConcurrent ==
    /\ adapter \in {a \in ConstructedAdapters :
                        /\ a.kid = Thumbprint(a.public_jwk)
                        /\ a.cert_url = "http://c.test/a.der"}
    /\ ctor = CtorRec("done",
                      [signature_style |-> adapter.signature_style,
                       key_path |-> "/k/a.KEY", cert_url |-> adapter.cert_url],
                      [reachable |-> TRUE, status_code |-> 200,
                       content |-> [fmt |-> "DER", key |-> adapter.public_jwk.id]],
                      [exists |-> TRUE,
                       content |-> [fmt |-> "PEM", key |-> adapter.private_jwk.id]],
                      Returned(""))
    /\ net = <<NetEntry(HttpRequest("GET", adapter.cert_url, "", NoHeaders), 0)>>
    /\ call = [t \in Threads |-> IdleCall]
    /\ scopesArg = CallerLists
    /\ clock = 0
    /\ digestIn = NoDigest
    /\ digestOut = ""
    /\ frame = [t \in Threads |-> NoFrame]

\* issue_token(intended_audience, scopes) is entered: the arguments are bound.
IssueTokenEnter(t) ==
    /\ adapter.constructed
    /\ frame[t].pc \in {"idle", "posted", "raised"}
    /\ CanCall(t)
    /\ \E intended_audience \in Audiences, scopes \in Threads :
          frame' = [frame EXCEPT ![t] =
                       Frame("entered", intended_audience, scopes,
                             scopesArg[scopes], adapter, NoAdapter, <<>>, 0, 0,
                             TRUE)]
    /\ call' = [call EXCEPT ![t] = IdleCall]
    /\ UNCHANGED <<adapter, ctor, net, scopesArg, clock, digestIn, digestOut>>

\* query = {...}; payload = "&".join(...): self._client_id, the list and the
\* clock are read.
IssueTokenQuery(t) ==
    /\ frame[t].pc = "entered"
    /\ scopesArg' = [scopesArg EXCEPT ![frame[t].scopes] =
                        SignedRequestScopes(frame[t].intended_audience, @)]
    /\ frame' = [frame EXCEPT ![t].pc = "query",
                              ![t].seen = [client_id |-> adapter.client_id],
                              ![t].joined = scopesArg'[frame[t].scopes],
                              ![t].t1 = clock]
    /\ UNCHANGED <<adapter, ctor, net, call, clock, digestIn, digestOut>>

\* token_headers = {...} up to the end of the style branches: the other
\* fields of self and the clock are read, the signature and the headers made.
IssueTokenSign(t) ==
    /\ frame[t].pc = "query"
    /\ \E sound \in BOOLEAN :
          LET seen == [adapter EXCEPT !.client_id = frame[t].seen.client_id]
              built == BuildOf(seen, frame[t].intended_audience,
                               frame[t].joined, frame[t].t1, clock, sound)
          IN  /\ frame' = [frame EXCEPT
                              ![t].pc = IF IsRaised(built.outcome)
                                        THEN "raised" ELSE "signed",
                              ![t].seen = seen, ![t].t2 = clock,
                              ![t].sound = sound]
              /\ call' = [call EXCEPT ![t] =
                    IF IsRaised(built.outcome)
                    THEN CallRec("raised", "SignedRequest",
                                 frame[t].intended_audience, built, NoResponse,
                                 built.outcome)
                    ELSE CallRec("signed", "SignedRequest",
                                 frame[t].intended_audience, built, NoResponse,
                                 NoOutcome)]
    /\ UNCHANGED <<adapter, ctor, net, scopesArg, clock, digestIn, digestOut>>

\* requests.post(self._token_endpoint, data=payload, headers=request_headers)
IssueTokenPost(t) ==
    /\ frame[t].pc = "signed"
    /\ Post(t, "SignedRequest", frame[t].intended_audience,
            Built(call[t].payload, call[t].signed, call[t].signature,
                  call[t].signatureValid, NoOutcome,
                  [call[t].request EXCEPT !.url = adapter.token_endpoint]))
    /\ frame' = [frame EXCEPT ![t].pc = "posted"]
    /\ UNCHANGED <<adapter, ctor, scopesArg, clock, digestIn, digestOut>>

NextConcurrent ==
    \/ Tick
    \/ \E t \in Threads : IssueTokenEnter(t)
    \/ \E t \in Threads : IssueTokenQuery(t)
    \/ \E t \in Threads : IssueTokenSign(t)
    \/ \E t \in Threads : IssueTokenPost(t)
    \/ \E t \in Threads : TokenEndpointRespondsWith(t, ConcurrentResponses)

SpecConcurrent == InitConcurrent /\ [][NextConcurrent]_vars

(***************************************************************************)
(* Properties                                                               *)
(***************************************************************************)
\* A SignedRequest call of thread t whose token request is out: it has been
\* posted and the answer is awaited (the answer changes nothing of it).
PostedSigned(t, style) ==
    /\ call[t].kind = "SignedRequest"
    /\ call[t].pc = "waiting"
    /\ call[t].request.method = "POST"
    /\ adapter.signature_style = style

\* C1: in SignedRequest.issue_token, under either style, a step of a call in
\* which the freshly produced signature does not verify against the adapter's
\* public key ends the call with an error, and that step sends no token
\* request: the network log is unchanged and the call holds no request.
C1_SelfCheckBeforePost ==
    [][\A t \in Threads :
          (/\ call'[t] # call[t]
           /\ call'[t].kind = "SignedRequest"
           /\ ~call'[t].signatureValid)
          => (/\ call'[t].pc = "raised"
              /\ IsRaised(call'[t].outcome)
              /\ call'[t].request = NoRequest
              /\ net' = net)]_vars

\* C1 witness: a UFT call whose signature did not verify has ended with the
\* library's InvalidSignature and without a request.
C1_Witness ==
    /\ adapter.constructed
    /\ adapter.signature_style = "UFT"
    /\ call[1].kind = "SignedRequest"
    /\ ~call[1].signatureValid
    /\ call[1].pc = "raised"
    /\ call[1].outcome.kind = "InvalidSignature"

\* The certificate was fetched and parsed, the key file was parsed, and the
\* two public keys differ.
KeyMismatch ==
    /\ ctor.state = "done"
    /\ ctor.response.reachable
    /\ ctor.response.content.fmt # "junk"
    /\ ctor.file.exists
    /\ ctor.file.content.fmt = "PEM"
    /\ PublicBytes(ctor.response.content.key) # PublicBytes(ctor.file.content.key)

\* C2: when the public key of the private key file differs from the public
\* key of the fetched certificate, construction fails and returns no adapter;
\* and whatever has been signed was signed by an adapter whose key pair has
\* the public key of the certificate that was fetched.
C2_NoSigningWithMismatchedKey ==
    /\ KeyMismatch => (IsRaised(ctor.outcome) /\ adapter = NoAdapter)
    /\ adapter.constructed =>
          /\ adapter.private_jwk.id = adapter.public_jwk.id
          /\ PublicBytes(adapter.public_jwk.id)
                = PublicBytes(ctor.response.content.key)
    /\ \A t \in Threads :
          call[t].signed # "" =>
              /\ adapter.constructed
              /\ adapter.private_jwk.id = ctor.response.content.key

\* C2 witness: a construction with well-formed arguments, a certificate for
\* K2 and a key file holding K1 was rejected for the mismatch.
C2_Witness ==
    /\ KeyMismatch
    /\ ctor.args.signature_style = "UPP2"
    /\ ctor.response.status_code = 200
    /\ ctor.outcome.kind = "AccessTokenError"
    /\ ctor.outcome.value
          = "Public key in certificate does not match private key provided"
    /\ adapter = NoAdapter

\* C3 (as claimed): a construction with a valid style whose cert_url does not
\* end in .der/.crt, or whose key_path does not end in .key/.pem, fails with
\* the unsupported-format error, and no network request has been made.
C3_FormatRejectedBeforeFetch ==
    (/\ ctor.state = "done"
     /\ ctor.args.signature_style \in {"UPP2", "UFT"}
     /\ \/ ctor.args.cert_url = "http://c.test/a.cer"
        \/ ctor.args.key_path = "/k/a.p12")
    => (/\ ctor.outcome.kind = "AccessTokenError"
        /\ ctor.outcome.value \in {"cert_url must end with .der or .crt",
                                   "key_path must end with .key or .pem"}
        /\ net = <<>>)

\* What an ended call's message must hold: the status code and the body.
CarriesStatusAndBody(msg, response) ==
    /\ Contains(msg, ToString(response.status_code))
    /\ Utf8Valid(response.body.content)
    /\ Contains(msg, Utf8Decode(response.body.content))

\* C4 (as claimed): for every adapter variant and every answer of the token
\* endpoint, an ended issue_token has returned a token string or has failed
\* with an AccessTokenError whose message holds the status code and the body.
C4_TokenOrAccessTokenError ==
    \A t \in Threads :
        (\/ call[t].pc = "returned"
         \/ call[t].pc = "raised" /\ call[t].response.reachable)
        => \/ /\ call[t].outcome.kind = "returned"
              /\ call[t].outcome.value.type = "str"
           \/ /\ call[t].outcome.kind = "AccessTokenError"
              /\ CarriesStatusAndBody(call[t].outcome.value, call[t].response)

\* C5: the body of a token request SignedRequest has sent is the body that
\* was signed: under UPP2 the token that verifies has the sent body as its
\* payload segment, under UFT the signature base that was signed covers the
\* digest of the sent body.
C5_BodySentIsBodySigned ==
    \A t \in Threads :
        /\ PostedSigned(t, "UPP2") =>
              /\ JwsVerifies(call[t].signed, adapter.public_jwk)
              /\ Split(call[t].signed, ".")[2]
                    = B64Url(Utf8(call[t].request.body))
        /\ PostedSigned(t, "UFT") =>
              /\ call[t].signature
                    = B64Encode(RS256(adapter.public_jwk.id,
                                      Utf8(call[t].signed)))
              /\ Split(call[t].signed, "\n")[6]
                    = "\"content-digest\": sha-512=:"
                      \o B64Encode(Sha512(Utf8(call[t].request.body))) \o ":"

\* C5 witness: a UFT token request is out whose body holds a scope of two
\* words.
C5_Witness ==
    /\ PostedSigned(1, "UFT")
    /\ call[1].pc = "waiting"
    /\ scopesArg[1] = <<"read", "write">>
    /\ Contains(call[1].request.body, "scope=read write&")

\* C6: under UPP2 the x-utm-message-signature header has exactly three
\* dot-separated segments, the middle one empty, the first and last those of
\* the signed token; putting the token's payload segment back gives the
\* token, which verifies.
C6_DetachedHeader ==
    \A t \in Threads :
        PostedSigned(t, "UPP2") =>
            LET header == Split(call[t].request.headers["x-utm-message-signature"],
                                ".")
                token == Split(call[t].signed, ".")
            IN  /\ Len(token) = 3
                /\ Len(header) = 3
                /\ header[2] = ""
                /\ header[1] = token[1]
                /\ header[3] = token[3]
                /\ header[1] \o "." \o token[2] \o "." \o header[3]
                      = call[t].signed
                /\ JwsVerifies(call[t].signed, adapter.public_jwk)

\* C6 witness: a UPP2 token request is out.
C6_Witness ==
    /\ PostedSigned(1, "UPP2")
    /\ call[1].pc = "waiting"
    /\ call[1].request.headers["x-utm-message-signature"] # ""

\* C7: under UFT the content-digest header of a token request sent is
\* "sha-512=:" + get_content_digest(body) + ":" for the body sent.
C7_ContentDigestHeader ==
    \A t \in Threads :
        PostedSigned(t, "UFT") =>
            call[t].request.headers["content-digest"]
               = "sha-512=:" \o get_content_digest(PyStr(call[t].request.body))
                 \o ":"

\* C7 witness: a UFT token request is out whose body holds whitespace from
\* the scope "x " and from the audience "a b".
C7_Witness ==
    /\ PostedSigned(1, "UFT")
    /\ call[1].pc = "waiting"
    /\ scopesArg[1] = <<"x ">>
    /\ call[1].intended_audience = "a b"

\* C8 (as claimed): under UFT the headers sent are exactly content-type,
\* content-digest, x-utm-jws-header, x-utm-message-signature and
\* x-utm-message-signature-input.
C8_UftHeadersAsClaimed ==
    \A t \in Threads :
        PostedSigned(t, "UFT") =>
            DOMAIN call[t].request.headers
               = {"content-type", "content-digest", "x-utm-jws-header",
                  "x-utm-message-signature", "x-utm-message-signature-input"}

\* The value the signature base that was signed gives a component.
SignedValue(signature_base, component) ==
    LET lines == Split(signature_base, "\n")
        prefix == "\"" \o component \o "\": "
        i == CHOOSE j \in 1..Len(lines) :
                /\ Len(lines[j]) >= Len(prefix)
                /\ SubSeq(lines[j], 1, Len(prefix)) = prefix
    IN  SubSeq(lines[i], Len(prefix) + 1, Len(lines[i]))

\* C8 (amended): under UFT the headers sent are exactly content-type,
\* content-digest, x-utm-jws-header, an authorization header with the empty
\* value, x-utm-message-signature = "utm-message-signature=:<sig>:" and
\* x-utm-message-signature-input = "utm-message-signature=" followed by the
\* @signature-params value of the signature base that was signed; the
\* component headers hold the values that were signed.
C8_UftHeaders ==
    \A t \in Threads :
        PostedSigned(t, "UFT") =>
            LET headers == call[t].request.headers
            IN  /\ DOMAIN headers
                      = {"authorization", "content-type", "content-digest",
                         "x-utm-jws-header", "x-utm-message-signature",
                         "x-utm-message-signature-input"}
                /\ headers["authorization"] = ""
                /\ \A c \in {"authorization", "content-type", "content-digest",
                             "x-utm-jws-header"} :
                      headers[c] = SignedValue(call[t].signed, c)
                /\ headers["x-utm-message-signature"]
                      = "utm-message-signature=:" \o call[t].signature \o ":"
                /\ headers["x-utm-message-signature-input"]
                      = "utm-message-signature="
                        \o SignedValue(call[t].signed, "@signature-params")

\* C8 witness: a UFT token request is out, with its authorization header.
C8_Witness ==
    /\ PostedSigned(1, "UFT")
    /\ call[1].pc = "waiting"
    /\ "authorization" \in DOMAIN call[1].request.headers

\* The digest of the empty byte sequence.
EmptyDigest == B64Encode(Sha512(""))

\* C9: the digest of a str or bytes payload is the digest of the payload
\* trimmed, and None, the empty payload and every payload whose trimmed value
\* is the two characters "" have the digest of the empty byte sequence.
C9_DigestOfNormalized ==
    digestIn # NoDigest =>
        /\ digestIn.type # "NoneType" =>
              digestOut = get_content_digest(Strip(digestIn))
        /\ (\/ digestIn.type = "NoneType"
            \/ digestIn.val = ""
            \/ Strip(digestIn).val = "\"\"")
           => digestOut = EmptyDigest

\* C9 witness: a quoted empty string after whitespace was digested to the
\* digest of the empty byte sequence.
C9_Witness ==
    /\ digestIn = PyStr(" \"\"")
    /\ digestOut = EmptyDigest

\* C10: a construction with a style other than UPP2 and UFT fails with
\* ValueError and returns no adapter; an adapter that exists has the style it
\* was constructed with, one of the two, and no issue_token call ends in the
\* ValueError of its last branch.
C10_StyleFixedAtConstruction ==
    /\ (ctor.state = "done" /\ ctor.args.signature_style \notin {"UPP2", "UFT"})
          => (ctor.outcome.kind = "ValueError" /\ adapter = NoAdapter)
    /\ adapter.constructed =>
          /\ adapter.signature_style \in {"UPP2", "UFT"}
          /\ adapter.signature_style = ctor.args.signature_style
    /\ \A t \in Threads : call[t].outcome.kind # "ValueError"

\* C10 witness: a construction with the style "JWS" was rejected.
C10_Witness ==
    /\ ctor.state = "done"
    /\ ctor.args.signature_style = "JWS"
    /\ ctor.outcome.kind = "ValueError"
    /\ adapter = NoAdapter

\* What a call of thread t would have built had it run alone, with the
\* adapter and the list it was entered with and the clock it read.
BuiltAlone(t) ==
    BuildOf(frame[t].self, frame[t].intended_audience, frame[t].given,
            frame[t].t1, frame[t].t2, frame[t].sound)

\* C11: while SignedRequest.issue_token calls of two callers interleave on
\* one adapter, possibly given the same list, the adapter is the one each
\* call was entered with, the list a call was given holds what it held at
\* entry, and the body, the headers and the whole request a call has built
\* are those the call builds alone from the same arguments and clock.
C11_NoSharedMutableState ==
    \A t \in Threads :
        frame[t].pc # "idle" =>
            /\ adapter = frame[t].self
            /\ scopesArg[frame[t].scopes] = frame[t].given
            /\ frame[t].pc \in {"signed", "posted", "raised"} =>
                  LET alone == BuiltAlone(t)
                  IN  /\ frame[t].seen = frame[t].self
                      /\ frame[t].joined = frame[t].given
                      /\ call[t].payload = alone.payload
                      /\ call[t].signed = alone.signed
                      /\ call[t].request = alone.request

\* C11 witness: two calls given the same list have interleaved, each read
\* the clock at 0 for its body and at 1 for its signature, and both requests
\* are out, for different audiences.
C11_Witness ==
    /\ \A t \in Threads :
          /\ frame[t].pc = "posted"
          /\ call[t].pc = "waiting"
          /\ frame[t].t1 = 0
          /\ frame[t].t2 = 1
    /\ frame[1].scopes = frame[2].scopes
    /\ frame[1].intended_audience # frame[2].intended_audience
    /\ call[1].request.body # call[2].request.body

====
